---- MODULE Spec2Model ----
(***************************************************************************)
(* Model of the native audio preprocessing layer                           *)
(* (app/src/main/cpp/audio_processor.cpp): pcm16ToFloat, resampleAudio,    *)
(* highPassFilter, normalizeAudio and calculateRMS, each called through    *)
(* JNI on a caller-owned array.                                            *)
(*                                                                         *)
(* Number model.  Sample values (jfloat) are exact rationals <<n, d>>:     *)
(* each sample stands for the real number the code computes up to          *)
(* floating-point rounding, and statements about sample values are         *)
(* statements up to that rounding.  The double-precision computations      *)
(* whose result is converted to an integer (target_length and index in     *)
(* resampleAudio) are modelled bit-exactly as IEEE-754 binary64 with       *)
(* round-to-nearest-even, on a 53-bit mantissa kept in four 18-bit limbs,  *)
(* because there a rounding error changes the result by a whole sample.    *)
(***************************************************************************)
EXTENDS Integers, Sequences, FiniteSets, TLC

(***************************************************************************)
(* Bounds of the model                                                     *)
(***************************************************************************)
MaxLen == 3
MaxLongLen == 11
MaxRate == 3

(***************************************************************************)
(* Exact rationals <<n, d>>, d > 0, in lowest terms                        *)
(***************************************************************************)
RECURSIVE Gcd(_, _)
Gcd(a, b) == IF b = 0 THEN a ELSE Gcd(b, a % b)

IAbs(n) == IF n < 0 THEN -n ELSE n

Rat(n, d) ==
  LET g == Gcd(IAbs(n), IAbs(d))
      s == IF d < 0 THEN -1 ELSE 1
  IN  <<(s * n) \div g, (s * d) \div g>>

RAdd(x, y) == Rat(x[1] * y[2] + y[1] * x[2], x[2] * y[2])
RSub(x, y) == Rat(x[1] * y[2] - y[1] * x[2], x[2] * y[2])
RMul(x, y) == Rat(x[1] * y[1], x[2] * y[2])
RDiv(x, y) == Rat(x[1] * y[2], x[2] * y[1])
RNeg(x) == <<-x[1], x[2]>>
RLess(x, y) == x[1] * y[2] < y[1] * x[2]
RZero == <<0, 1>>
ROne == <<1, 1>>

(***************************************************************************)
(* Natural numbers of up to 72 bits: four limbs, least significant first   *)
(***************************************************************************)
W == 2 ^ 18

BigZero == <<0, 0, 0, 0>>
BigOfInt(n) == <<n % W, n \div W, 0, 0>>
BigIsZero(a) == a = BigZero

BigShl1(a) ==
  LET d0 == 2 * a[1]
      d1 == 2 * a[2] + d0 \div W
      d2 == 2 * a[3] + d1 \div W
      d3 == 2 * a[4] + d2 \div W
  IN  <<d0 % W, d1 % W, d2 % W, d3>>

BigShr1(a) ==
  <<(a[1] + (a[2] % 2) * W) \div 2,
    (a[2] + (a[3] % 2) * W) \div 2,
    (a[3] + (a[4] % 2) * W) \div 2,
    a[4] \div 2>>

BigGe(a, b) ==
  IF a[4] # b[4] THEN a[4] > b[4]
  ELSE IF a[3] # b[3] THEN a[3] > b[3]
  ELSE IF a[2] # b[2] THEN a[2] > b[2]
  ELSE a[1] >= b[1]

BigSub(a, b) ==
  LET d0 == a[1] - b[1]
      c0 == IF d0 < 0 THEN 1 ELSE 0
      d1 == a[2] - b[2] - c0
      c1 == IF d1 < 0 THEN 1 ELSE 0
      d2 == a[3] - b[3] - c1
      c2 == IF d2 < 0 THEN 1 ELSE 0
  IN  <<d0 + c0 * W, d1 + c1 * W, d2 + c2 * W, a[4] - b[4] - c2>>

BigInc(a) ==
  LET d0 == a[1] + 1
      d1 == a[2] + d0 \div W
      d2 == a[3] + d1 \div W
  IN  <<d0 % W, d1 % W, d2 % W, a[4] + d2 \div W>>

BigMulSmall(a, k) ==
  LET d0 == a[1] * k
      d1 == a[2] * k + d0 \div W
      d2 == a[3] * k + d1 \div W
      d3 == a[4] * k + d2 \div W
  IN  <<d0 % W, d1 % W, d2 % W, d3>>

RECURSIVE IntBitLen(_)
IntBitLen(n) == IF n = 0 THEN 0 ELSE 1 + IntBitLen(n \div 2)

BigBitLen(a) ==
  IF a[4] # 0 THEN 54 + IntBitLen(a[4])
  ELSE IF a[3] # 0 THEN 36 + IntBitLen(a[3])
  ELSE IF a[2] # 0 THEN 18 + IntBitLen(a[2])
  ELSE IntBitLen(a[1])

Pow2(k) == 2 ^ k

\* limb i (1..4) of a after moving every limb n places up / down
BigLimbsUp(a, n) == [i \in 1..4 |-> IF i - n >= 1 THEN a[i - n] ELSE 0]
BigLimbsDown(a, n) == [i \in 1..4 |-> IF i + n <= 4 THEN a[i + n] ELSE 0]

\* a * 2^k
BigShl(a, k) ==
  LET b == BigLimbsUp(a, k \div 18)
      r == k % 18
  IN  IF r > 9 THEN BigMulSmall(BigMulSmall(b, Pow2(9)), Pow2(r - 9))
      ELSE BigMulSmall(b, Pow2(r))

\* floor(a / 2^k)
BigShr(a, k) ==
  IF k >= 72 THEN BigZero
  ELSE LET b == BigLimbsDown(a, k \div 18)
           r == k % 18
           p == Pow2(r)
           h == Pow2(18 - r)
       IN  <<b[1] \div p + (b[2] % p) * h,
             b[2] \div p + (b[3] % p) * h,
             b[3] \div p + (b[4] % p) * h,
             b[4] \div p>>

\* bit j of a (bit 0 is the least significant)
BigBit(a, j) == IF j >= 72 THEN 0 ELSE (a[j \div 18 + 1] \div Pow2(j % 18)) % 2

\* TRUE iff some bit of a below bit j is set
BigLowNonZero(a, j) ==
  IF j >= 72 THEN ~BigIsZero(a)
  ELSE \/ \E i \in 1..4 : i <= j \div 18 /\ a[i] # 0
       \/ a[j \div 18 + 1] % Pow2(j % 18) # 0

(***************************************************************************)
(* IEEE-754 binary64, non-negative finite values: [m, e] is m * 2^e with   *)
(* 2^52 <= m < 2^53, or m = 0                                              *)
(***************************************************************************)
MantBits == 53

DZero == [m |-> BigZero, e |-> 0]

\* round-to-nearest, ties-to-even, of p * 2^e (p # 0); inexact = TRUE when
\* the exact value lies strictly between p * 2^e and (p + 1) * 2^e
RoundToDouble(p, e, inexact) ==
  LET len == BigBitLen(p)
      k   == len - MantBits
  IN  IF k <= 0
      THEN [m |-> BigShl(p, -k), e |-> e + k]
      ELSE LET t      == BigShr(p, k)
               guard  == BigBit(p, k - 1) = 1
               sticky == inexact \/ BigLowNonZero(p, k - 1)
               up     == guard /\ (sticky \/ t[1] % 2 = 1)
               q      == IF up THEN BigInc(t) ELSE t
           IN  IF BigBitLen(q) > MantBits
               THEN [m |-> BigShr1(q), e |-> e + k + 1]
               ELSE [m |-> q, e |-> e + k]

\* static_cast<double>(n), n >= 0: exact
IntToDouble(n) ==
  IF n = 0 THEN DZero ELSE RoundToDouble(BigOfInt(n), 0, FALSE)

\* the next k quotient bits of rem / den by long division (rem < den)
RECURSIVE DivBits(_, _, _)
DivBits(rem, den, k) ==
  IF k = 0 THEN [q |-> 0, rem |-> rem]
  ELSE LET r2   == BigShl1(rem)
           ge   == BigGe(r2, den)
           rest == DivBits(IF ge THEN BigSub(r2, den) ELSE r2, den, k - 1)
       IN  [q |-> (IF ge THEN Pow2(k - 1) ELSE 0) + rest.q, rem |-> rest.rem]

\* x / y in binary64 (y # 0)
DoubleDiv(x, y) ==
  IF BigIsZero(x.m) THEN DZero
  ELSE LET big == BigGe(x.m, y.m)
           num == IF big THEN x.m ELSE BigShl1(x.m)
           ex  == IF big THEN x.e ELSE x.e - 1
           \* num / y.m lies in [1, 2): the leading bit is 1; 53 more bits
           \* follow, the last of them the guard bit
           c1  == DivBits(BigSub(num, y.m), y.m, 17)
           c2  == DivBits(c1.rem, y.m, 18)
           c3  == DivBits(c2.rem, y.m, 18)
       IN  RoundToDouble(<<c3.q, c2.q, Pow2(17) + c1.q, 0>>,
                         ex - y.e - MantBits, ~BigIsZero(c3.rem))

\* n * x in binary64, n a non-negative integer converted to double
IntTimesDouble(n, x) ==
  IF n = 0 \/ BigIsZero(x.m) THEN DZero
  ELSE RoundToDouble(BigMulSmall(x.m, n), x.e, FALSE)

\* static_cast<jsize>(x): truncation toward zero (x < 2^31)
DoubleToInt(x) ==
  IF BigIsZero(x.m) THEN 0
  ELSE LET t == BigShr(x.m, -x.e)
       IN  t[1] + t[2] * W

(***************************************************************************)
(* Inputs of the model                                                     *)
(***************************************************************************)
SeqsUpTo(S, n) == UNION {[1..k -> S] : k \in 0..n}

PcmSamples == {-32768, -16384, 0, 16384, 32767}
FloatSamples == {RZero, <<1, 2>>, <<-1, 1>>}

\* the buffers of the concrete scenarios, and long constant buffers
ScenarioBuffers ==
  { <<RZero, ROne>>,
    <<(<<1, 5>>), (<<-1, 2>>), (<<1, 10>>)>>,
    <<ROne, <<-1, 1>>, ROne, <<-1, 1>>>>,
    <<ROne, ROne, ROne, ROne>> }
LongBuffers == {[i \in 1..n |-> <<1, 2>>] : n \in (MaxLen + 1)..MaxLongLen}

PcmBuffers == SeqsUpTo(PcmSamples, MaxLen)
FloatBuffers == SeqsUpTo(FloatSamples, MaxLen) \cup ScenarioBuffers \cup LongBuffers

\* <<source_rate, target_rate>>
RatePairs ==
  ((1..MaxRate) \X (1..MaxRate))
    \cup {<<8000, 16000>>, <<16000, 8000>>, <<16000, 16000>>,
          <<11, 15>>, <<15, 11>>, <<7, 9>>, <<9, 7>>}

\* cutoff frequencies and sample rates of the filter (alpha is 1/4, 1/2, 3/4)
Cutoffs == {<<113, 1>>, <<339, 1>>}
FilterRates == {710, 2130}
Levels == {RZero, <<1, 2>>, ROne}

\* outcome of the JNI calls of one invocation
Envs == [srcOk : BOOLEAN, allocOk : BOOLEAN, dstOk : BOOLEAN, isCopy : BOOLEAN]

(***************************************************************************)
(* JNI array access                                                        *)
(***************************************************************************)
JNI_ABORT == "JNI_ABORT"
JNI_COPYBACK == "0"

NullView == [null |-> TRUE, elems |-> <<>>, isCopy |-> FALSE]
NullArray == [null |-> TRUE, elems |-> <<>>]

GetArrayLength(array) == Len(array)

\* Get<Type>ArrayElements: a view of the array (pinned or a copy), or null
GetArrayElements(array, ok, isCopy) ==
  IF ok THEN [null |-> FALSE, elems |-> array, isCopy |-> isCopy] ELSE NullView

\* NewFloatArray: a new zero-filled array, or null
NewFloatArray(length, ok) ==
  IF ok THEN [null |-> FALSE, elems |-> [i \in 1..length |-> RZero]] ELSE NullArray

\* Release<Type>ArrayElements: the contents of the array after the release
\* of a view whose elements are now elems
ReleaseArrayElements(array, view, elems, mode) ==
  IF mode = JNI_ABORT /\ view.isCopy THEN array ELSE elems

\* fault variant: the error entry is not emitted
LOGE_off(log) == log
\* LOGE(...): an error entry is appended to the log
LOGE(log) == Append(log, "E")
LOGI(log) == Append(log, "I")
LOGD(log) == Append(log, "D")

NoViews == [src |-> 0, dst |-> 0]
Count(views, v) == [views EXCEPT ![v] = @ + 1]

NaN == [isNaN |-> TRUE, sqrtOf |-> RZero]
NoRms == [isNaN |-> FALSE, sqrtOf |-> RZero]

\* the effect of one invocation: returned reference, contents of the input
\* array and of the output array afterwards, log, views acquired / released,
\* out-of-bounds access, first failing JNI call
Outcome(ret, input, output, log, acquired, released, fail) ==
  [ret |-> ret, input |-> input, output |-> output, rms |-> NoRms, log |-> log,
   acquired |-> acquired, released |-> released, oob |-> FALSE, fail |-> fail]

(***************************************************************************)
(* pcm16ToFloat                                                            *)
(***************************************************************************)
\* fault variant: scaling by the largest positive sample
scale_off == <<1, 32767>>
\* const float scale = 1.0f / 32768.0f
scale == <<1, 32768>>

\* the conversion loop: the elements of float_data afterwards
pcm16ToFloat_loop(pcm, float_data, length) ==
  [i \in 1..Len(float_data) |->
     IF i <= length THEN RMul(<<pcm[i], 1>>, scale) ELSE float_data[i]]

pcm16ToFloat(pcm_data, env) ==
  LET length == GetArrayLength(pcm_data)
      pcm    == GetArrayElements(pcm_data, env.srcOk, env.isCopy)
      float_array == NewFloatArray(length, env.allocOk)
      float_data  == GetArrayElements(float_array.elems, env.dstOk, env.isCopy)
      acq1 == Count(NoViews, "src")
      rel1 == Count(NoViews, "src")
      abort == ReleaseArrayElements(pcm_data, pcm, pcm.elems, JNI_ABORT)
  IN  IF pcm.null
      THEN Outcome("null", pcm_data, <<>>, LOGE(<<>>), NoViews, NoViews, "src")
      ELSE IF float_array.null
      THEN Outcome("null", abort, <<>>, LOGE(<<>>), acq1, rel1, "alloc")
      ELSE IF float_data.null
      THEN Outcome("null", abort, float_array.elems, LOGE(<<>>), acq1, rel1, "dst")
      ELSE LET written == pcm16ToFloat_loop(pcm.elems, float_data.elems, length)
           IN  Outcome("new", abort,
                       ReleaseArrayElements(float_array.elems, float_data,
                                            written, JNI_COPYBACK),
                       LOGD(<<>>), Count(acq1, "dst"), Count(rel1, "dst"), "none")

(***************************************************************************)
(* resampleAudio                                                           *)
(***************************************************************************)
\* double ratio = static_cast<double>(target_rate) / static_cast<double>(source_rate)
Ratio(source_rate, target_rate) ==
  DoubleDiv(IntToDouble(target_rate), IntToDouble(source_rate))

\* jsize target_length = static_cast<jsize>(source_length * ratio)
TargetLength(source_length, ratio) ==
  DoubleToInt(IntTimesDouble(source_length, ratio))

\* jsize index = static_cast<jsize>(static_cast<double>(i) / ratio)
SourceIndex(i, ratio) == DoubleToInt(DoubleDiv(IntToDouble(i), ratio))

\* double fraction = source_index - index, as the real number it rounds
Fraction(i, index, source_rate, target_rate) ==
  RSub(Rat(i * source_rate, target_rate), <<index, 1>>)

\* source indices (from 0) read in iteration i
resampleAudio_reads(index, source_length) ==
  IF index >= source_length - 1 THEN {source_length - 1} ELSE {index, index + 1}

\* the value stored in target_audio[i]
resampleAudio_sample(source_audio, source_length, i, index, fraction) ==
  IF index >= source_length - 1
  THEN source_audio[(source_length - 1) + 1]
  ELSE RAdd(RMul(source_audio[index + 1], RSub(ROne, fraction)),
            RMul(source_audio[(index + 1) + 1], fraction))

\* the interpolation loop: elements of target_audio afterwards, and whether
\* an element outside source_audio was read
resampleAudio_loop(source_audio, source_length, target_length, ratio, source_rate, target_rate) ==
  LET idx == [i \in 0..(target_length - 1) |-> SourceIndex(i, ratio)]
  IN  [dst |-> [j \in 1..target_length |->
                  resampleAudio_sample(source_audio, source_length, j - 1,
                      idx[j - 1],
                      Fraction(j - 1, idx[j - 1], source_rate, target_rate))],
       oob |-> \E i \in 0..(target_length - 1) :
                 \E k \in resampleAudio_reads(idx[i], source_length) :
                    k < 0 \/ k >= source_length]

\* fault variant: equal rates return a copy of the input
resampleAudio_copy(audio_data) ==
  Outcome("new", audio_data, audio_data, <<>>, NoViews, NoViews, "none")
\* source_rate == target_rate: the input array itself is returned
resampleAudio_same(audio_data) ==
  Outcome("input", audio_data, <<>>, <<>>, NoViews, NoViews, "none")

resampleAudio(audio_data, source_rate, target_rate, env) ==
  IF source_rate = target_rate THEN resampleAudio_same(audio_data)
  ELSE
  LET source_length == GetArrayLength(audio_data)
      source_audio  == GetArrayElements(audio_data, env.srcOk, env.isCopy)
      ratio         == Ratio(source_rate, target_rate)
      target_length == TargetLength(source_length, ratio)
      target_array  == NewFloatArray(target_length, env.allocOk)
      target_audio  == GetArrayElements(target_array.elems, env.dstOk, env.isCopy)
      acq1 == Count(NoViews, "src")
      rel1 == Count(NoViews, "src")
      abort == ReleaseArrayElements(audio_data, source_audio, source_audio.elems,
                                    JNI_ABORT)
  IN  IF source_audio.null
      THEN Outcome("null", audio_data, <<>>, LOGE(<<>>), NoViews, NoViews, "src")
      ELSE IF target_array.null
      THEN Outcome("null", abort, <<>>, LOGE(<<>>), acq1, rel1, "alloc")
      ELSE IF target_audio.null
      THEN Outcome("null", abort, target_array.elems, LOGE(<<>>), acq1, rel1, "dst")
      ELSE LET l == resampleAudio_loop(source_audio.elems, source_length,
                                       target_length, ratio, source_rate,
                                       target_rate)
           IN  [Outcome("new", abort,
                        ReleaseArrayElements(target_array.elems, target_audio,
                                             l.dst, JNI_COPYBACK),
                        LOGI(<<>>), Count(acq1, "dst"), Count(rel1, "dst"), "none")
                EXCEPT !.oob = l.oob]

(***************************************************************************)
(* highPassFilter                                                          *)
(***************************************************************************)
\* M_PI, to single precision
M_PI == <<355, 113>>

\* dt = 1 / sample_rate, rc = 1 / (2 * M_PI * cutoff_freq), alpha = rc / (rc + dt)
Alpha(cutoff_freq, sample_rate) ==
  LET dt == RDiv(ROne, <<sample_rate, 1>>)
      rc == RDiv(ROne, RMul(RMul(<<2, 1>>, M_PI), cutoff_freq))
  IN  RDiv(rc, RAdd(rc, dt))

\* indices (from 0) read from audio and written to filtered
highPassFilter_reads(length) == {0} \cup UNION {{i, i - 1} : i \in 1..(length - 1)}
highPassFilter_writes(length) == {0} \cup (1..(length - 1))

\* fault variant: the first sample is filtered too
highPassFilter_first_scaled(audio, alpha) == RMul(alpha, audio[1])
\* filtered[0] = audio[0]
highPassFilter_first(audio, alpha) == audio[1]

\* for (i = 1; i < length; ++i) filtered[i] = alpha * (filtered[i-1] + audio[i] - audio[i-1])
RECURSIVE highPassFilter_loop(_, _, _, _, _)
highPassFilter_loop(audio, filtered, alpha, i, length) ==
  IF i >= length THEN filtered
  ELSE highPassFilter_loop(audio,
         [filtered EXCEPT ![i + 1] =
            RMul(alpha, RSub(RAdd(filtered[i], audio[i + 1]), audio[i]))],
         alpha, i + 1, length)

\* the elements of filtered after the filter has run (length >= 1)
highPassFilter_run(audio, filtered, alpha, length) ==
  highPassFilter_loop(audio,
                      [filtered EXCEPT ![1] = highPassFilter_first(audio, alpha)],
                      alpha, 1, length)

highPassFilter(audio_data, cutoff_freq, sample_rate, env) ==
  LET length == GetArrayLength(audio_data)
      audio  == GetArrayElements(audio_data, env.srcOk, env.isCopy)
      filtered_array == NewFloatArray(length, env.allocOk)
      filtered == GetArrayElements(filtered_array.elems, env.dstOk, env.isCopy)
      acq1 == Count(NoViews, "src")
      rel1 == Count(NoViews, "src")
      abort == ReleaseArrayElements(audio_data, audio, audio.elems, JNI_ABORT)
      alpha == Alpha(cutoff_freq, sample_rate)
      oob == \E k \in highPassFilter_reads(length) \cup highPassFilter_writes(length) :
                k < 0 \/ k >= length
  IN  IF audio.null
      THEN Outcome("null", audio_data, <<>>, LOGE(<<>>), NoViews, NoViews, "src")
      ELSE IF filtered_array.null
      THEN Outcome("null", abort, <<>>, LOGE(<<>>), acq1, rel1, "alloc")
      ELSE IF filtered.null
      THEN Outcome("null", abort, filtered_array.elems, LOGE(<<>>), acq1, rel1, "dst")
      ELSE LET written == IF oob THEN filtered.elems
                          ELSE highPassFilter_run(audio.elems, filtered.elems,
                                                  alpha, length)
           IN  [Outcome("new", abort,
                        ReleaseArrayElements(filtered_array.elems, filtered,
                                             written, JNI_COPYBACK),
                        LOGD(<<>>), Count(acq1, "dst"), Count(rel1, "dst"), "none")
                EXCEPT !.oob = oob]

\* the invocation is killed at the out-of-bounds access of line 171
highPassFilter_fault(audio_data) ==
  [Outcome("none", audio_data, <<>>, <<>>, Count(Count(NoViews, "src"), "dst"),
           NoViews, "none") EXCEPT !.oob = TRUE]

(***************************************************************************)
(* normalizeAudio                                                          *)
(***************************************************************************)
RAbs(x) == <<IAbs(x[1]), x[2]>>

\* fault variant: the maximum is taken without std::abs
RECURSIVE MaxVal_signed(_, _, _, _)
MaxVal_signed(audio, i, length, max_val) ==
  IF i >= length THEN max_val
  ELSE MaxVal_signed(audio, i + 1, length,
                     IF RLess(max_val, audio[i + 1]) THEN audio[i + 1] ELSE max_val)

\* max_val after the loop over i = 0 .. length - 1, started from max_val
RECURSIVE MaxVal(_, _, _, _)
MaxVal(audio, i, length, max_val) ==
  IF i >= length THEN max_val
  ELSE LET abs_val == RAbs(audio[i + 1])
       IN  MaxVal(audio, i + 1, length,
                  IF RLess(max_val, abs_val) THEN abs_val ELSE max_val)

\* fault variant: the samples are scaled in place, in the input view
normalizeAudio_inplace(audio, normalized, length, factor) ==
  LET scaled == [i \in 1..Len(audio) |->
                   IF i <= length THEN RMul(audio[i], factor) ELSE audio[i]]
  IN  [src |-> scaled, dst |-> scaled]
\* the scaling loop: the elements of both views afterwards
normalizeAudio_loop(audio, normalized, length, factor) ==
  [src |-> audio,
   dst |-> [i \in 1..Len(normalized) |->
              IF i <= length THEN RMul(audio[i], factor) ELSE normalized[i]]]

\* fault variant: the silence return does not release the view
normalizeAudio_silent_leak(audio_data, audio) ==
  Outcome("input", audio_data, <<>>, <<>>, Count(NoViews, "src"), NoViews, "none")
\* max_val == 0: release the view and return the input array itself
normalizeAudio_silent(audio_data, audio) ==
  Outcome("input",
          ReleaseArrayElements(audio_data, audio, audio.elems, JNI_ABORT),
          <<>>, <<>>, Count(NoViews, "src"), Count(NoViews, "src"), "none")

normalizeAudio(audio_data, target_level, env) ==
  LET length == GetArrayLength(audio_data)
      audio  == GetArrayElements(audio_data, env.srcOk, env.isCopy)
      max_val == MaxVal(audio.elems, 0, length, RZero)
      normalized_array == NewFloatArray(length, env.allocOk)
      normalized == GetArrayElements(normalized_array.elems, env.dstOk, env.isCopy)
      acq1 == Count(NoViews, "src")
      rel1 == Count(NoViews, "src")
      abort == ReleaseArrayElements(audio_data, audio, audio.elems, JNI_ABORT)
  IN  IF audio.null
      THEN Outcome("null", audio_data, <<>>, LOGE(<<>>), NoViews, NoViews, "src")
      ELSE IF max_val = RZero
      THEN normalizeAudio_silent(audio_data, audio)
      ELSE IF normalized_array.null
      THEN Outcome("null", abort, <<>>, LOGE(<<>>), acq1, rel1, "alloc")
      ELSE IF normalized.null
      THEN Outcome("null", abort, normalized_array.elems, LOGE(<<>>), acq1, rel1, "dst")
      ELSE LET factor == RDiv(target_level, max_val)
               l == normalizeAudio_loop(audio.elems, normalized.elems, length, factor)
           IN  Outcome("new",
                       ReleaseArrayElements(audio_data, audio, l.src, JNI_ABORT),
                       ReleaseArrayElements(normalized_array.elems, normalized,
                                            l.dst, JNI_COPYBACK),
                       LOGD(<<>>), Count(acq1, "dst"), Count(rel1, "dst"), "none")

(***************************************************************************)
(* calculateRMS                                                            *)
(***************************************************************************)
\* fault variant: audio[i] * |audio[i]| is summed
RECURSIVE SumSquares_signed(_, _, _, _)
SumSquares_signed(audio, i, length, sum_squares) ==
  IF i >= length THEN sum_squares
  ELSE SumSquares_signed(audio, i + 1, length,
                         RAdd(sum_squares, RMul(audio[i + 1], RAbs(audio[i + 1]))))

\* sum_squares after the loop over i = 0 .. length - 1
RECURSIVE SumSquares(_, _, _, _)
SumSquares(audio, i, length, sum_squares) ==
  IF i >= length THEN sum_squares
  ELSE SumSquares(audio, i + 1, length,
                  RAdd(sum_squares, RMul(audio[i + 1], audio[i + 1])))

\* std::sqrt(sum_squares / length): 0.0 / 0 is NaN
Rms(sum_squares, length) ==
  IF length = 0 THEN NaN
  ELSE [isNaN |-> FALSE, sqrtOf |-> RDiv(sum_squares, <<length, 1>>)]

calculateRMS(audio_data, env) ==
  LET length == GetArrayLength(audio_data)
      audio  == GetArrayElements(audio_data, env.srcOk, env.isCopy)
      sum_squares == SumSquares(audio.elems, 0, length, RZero)
  IN  IF audio.null
      THEN Outcome("scalar", audio_data, <<>>, LOGE(<<>>), NoViews, NoViews, "src")
      ELSE [Outcome("scalar",
                    ReleaseArrayElements(audio_data, audio, audio.elems, JNI_ABORT),
                    <<>>, <<>>, Count(NoViews, "src"), Count(NoViews, "src"), "none")
            EXCEPT !.rms = Rms(sum_squares, length)]

(***************************************************************************)
(* The caller: one array, passed to one native call at a time              *)
(***************************************************************************)
VARIABLES
  pc,              \* "idle", "returned", or "crashed"
  kind,            \* "short" (jshortArray) or "float" (jfloatArray)
  data,            \* contents of the caller's array
  before,          \* contents of the caller's array when the call was made
  op,              \* the native method called
  args,            \* its scalar arguments
  ret,             \* "null", "input" (the array passed in), "new", "scalar"
  output,          \* contents of the array allocated by the call
  rms,             \* the jfloat returned by calculateRMS
  log,             \* log entries emitted by the call
  acquired,        \* number of times each view was acquired
  released,        \* number of times each view was released
  oob,             \* an element outside an array was read or written
  fail,            \* the JNI call that failed: "none", "src", "alloc", "dst"
  filteredBefore   \* history: highPassFilter has been called earlier

vars == <<pc, kind, data, before, op, args, ret, output, rms, log, acquired,
          released, oob, fail, filteredBefore>>

NoArgs == [source_rate |-> 0, target_rate |-> 0, cutoff_freq |-> RZero,
           sample_rate |-> 0, target_level |-> RZero]

Init ==
  /\ pc = "idle"
  /\ \/ kind = "short" /\ data \in PcmBuffers
     \/ kind = "float" /\ data \in FloatBuffers
  /\ before = data
  /\ op = "none"
  /\ args = NoArgs
  /\ ret = "none"
  /\ output = <<>>
  /\ rms = NoRms
  /\ log = <<>>
  /\ acquired = NoViews
  /\ released = NoViews
  /\ oob = FALSE
  /\ fail = "none"
  /\ filteredBefore = FALSE

\* the call of method name with arguments a has had outcome r
Return(name, a, r, state) ==
  /\ pc' = state
  /\ op' = name
  /\ args' = a
  /\ before' = data
  /\ data' = r.input
  /\ ret' = r.ret
  /\ output' = r.output
  /\ rms' = r.rms
  /\ log' = r.log
  /\ acquired' = r.acquired
  /\ released' = r.released
  /\ oob' = r.oob
  /\ fail' = r.fail
  /\ kind' = kind

Call_pcm16ToFloat ==
  /\ pc = "idle" /\ kind = "short"
  /\ \E env \in Envs :
       Return("pcm16ToFloat", NoArgs, pcm16ToFloat(data, env), "returned")
  /\ UNCHANGED filteredBefore

Call_resampleAudio ==
  /\ pc = "idle" /\ kind = "float"
  /\ \E rates \in RatePairs, env \in Envs :
       Return("resampleAudio",
              [NoArgs EXCEPT !.source_rate = rates[1], !.target_rate = rates[2]],
              resampleAudio(data, rates[1], rates[2], env), "returned")
  /\ UNCHANGED filteredBefore

Call_highPassFilter ==
  /\ pc = "idle" /\ kind = "float"
  /\ \E cutoff_freq \in Cutoffs, sample_rate \in FilterRates, env \in Envs,
        killed \in BOOLEAN :
       LET r == highPassFilter(data, cutoff_freq, sample_rate, env)
           a == [NoArgs EXCEPT !.cutoff_freq = cutoff_freq,
                               !.sample_rate = sample_rate]
       IN  IF r.oob /\ killed
           THEN Return("highPassFilter", a, highPassFilter_fault(data), "crashed")
           ELSE Return("highPassFilter", a, r, "returned")
  /\ filteredBefore' = TRUE

Call_normalizeAudio ==
  /\ pc = "idle" /\ kind = "float"
  /\ \E target_level \in Levels, env \in Envs :
       Return("normalizeAudio", [NoArgs EXCEPT !.target_level = target_level],
              normalizeAudio(data, target_level, env), "returned")
  /\ UNCHANGED filteredBefore

Call_calculateRMS ==
  /\ pc = "idle" /\ kind = "float"
  /\ \E env \in Envs :
       Return("calculateRMS", NoArgs, calculateRMS(data, env), "returned")
  /\ UNCHANGED filteredBefore

\* the caller takes the result and is ready for its next call
Consume ==
  /\ pc = "returned"
  /\ pc' = "idle"
  /\ before' = data
  /\ op' = "none"
  /\ args' = NoArgs
  /\ ret' = "none"
  /\ output' = <<>>
  /\ rms' = NoRms
  /\ log' = <<>>
  /\ acquired' = NoViews
  /\ released' = NoViews
  /\ oob' = FALSE
  /\ fail' = "none"
  /\ UNCHANGED <<kind, data, filteredBefore>>

Next ==
  \/ Call_pcm16ToFloat
  \/ Call_resampleAudio
  \/ Call_highPassFilter
  \/ Call_normalizeAudio
  \/ Call_calculateRMS
  \/ Consume

Spec == Init /\ [][Next]_vars

(***************************************************************************)
(* Properties                                                              *)
(***************************************************************************)
ArrayOps == {"pcm16ToFloat", "resampleAudio", "highPassFilter", "normalizeAudio"}
Views == {"src", "dst"}

ErrorLogged == \E i \in DOMAIN log : log[i] = "E"
AllZero(x) == \A i \in DOMAIN x : x[i] = RZero
Constant(x) == \A i \in DOMAIN x : x[i] = x[1]
Negated(x) == [i \in DOMAIN x |-> RNeg(x[i])]
RLeq(x, y) == ~RLess(y, x)
\* the largest absolute value among the elements of a non-empty x
Peak(x) ==
  CHOOSE m \in {RAbs(x[j]) : j \in DOMAIN x} :
    \A j \in DOMAIN x : RLeq(RAbs(x[j]), m)

\* C1: in pcm16ToFloat, resampleAudio, highPassFilter and normalizeAudio, when
\* acquiring the source view, allocating the output array or acquiring the
\* output view fails, the call returns null, never an output buffer, and an
\* error log entry has been emitted by then.
C1_FailureReturnsNullAndLogs ==
  (pc = "returned" /\ op \in ArrayOps /\ fail # "none")
    => (ret = "null" /\ ErrorLogged)

C1_Witness ==
  /\ pc = "returned" /\ op = "normalizeAudio" /\ fail = "dst"
  /\ ~AllZero(before) /\ ret = "null" /\ ErrorLogged

\* C2: after any call of the five operations, on the success path and on
\* every failure path, the caller's input array holds exactly the samples it
\* held before the call.
C2_InputUnchanged == data = before

C2_Witness ==
  /\ pc = "returned" /\ op = "normalizeAudio" /\ ret = "new"
  /\ output # before /\ data = before /\ Len(before) > 0

C4_ResampleLengthAndSamples ==
  (pc = "returned" /\ op = "resampleAudio" /\ ret = "new")
    => LET N == Len(before)
           s == args.source_rate
           t == args.target_rate
       IN  /\ Len(output) = (N * t) \div s
           /\ \A i \in 0..(Len(output) - 1) :
                LET k == (i * s) \div t
                    f == RSub(Rat(i * s, t), <<k, 1>>)
                IN  output[i + 1] =
                      IF k >= N - 1 THEN before[N]
                      ELSE RAdd(RMul(before[k + 1], RSub(ROne, f)),
                                RMul(before[k + 2], f))

\* C5: for an input with a non-zero sample and a level L >= 0, a successful
\* normalizeAudio returns a buffer of the same length with
\* output[i] = input[i] * L / max|input|, whose largest absolute value is L;
\* an all-zero input is returned unchanged.
C5_NormalizeScalesToLevel ==
  (pc = "returned" /\ op = "normalizeAudio" /\ ret # "null")
    => IF AllZero(before)
       THEN ret = "input" /\ data = before
       ELSE /\ ret = "new"
            /\ Len(output) = Len(before)
            /\ \A i \in DOMAIN before :
                 RMul(output[i], Peak(before)) = RMul(before[i], args.target_level)
            /\ Peak(output) = args.target_level

C5_Witness ==
  /\ pc = "returned" /\ op = "normalizeAudio" /\ args.target_level = ROne
  /\ before = <<(<<1, 5>>), (<<-1, 2>>), (<<1, 10>>)>>
  /\ output = <<(<<2, 5>>), (<<-1, 1>>), (<<1, 5>>)>>

\* C6: a successful pcm16ToFloat returns a buffer of the length of its input
\* with output[i] = input[i] / 32768, so that -1 <= output[i] < 1.
C6_Pcm16ToFloatExact ==
  (pc = "returned" /\ op = "pcm16ToFloat" /\ fail = "none")
    => /\ ret = "new"
       /\ Len(output) = Len(before)
       /\ \A i \in DOMAIN before :
            /\ output[i][1] * 32768 = before[i] * output[i][2]
            /\ -output[i][2] <= output[i][1]
            /\ output[i][1] < output[i][2]

C6_Witness ==
  /\ pc = "returned" /\ op = "pcm16ToFloat"
  /\ before = <<16384, -16384, 0>>
  /\ output = <<(<<1, 2>>), (<<-1, 2>>), RZero>>

\* C7: on a constant input of length N >= 1, highPassFilter returns N samples,
\* the first equal to the input's first sample and each later one alpha times
\* its predecessor, 0 < alpha < 1, whatever calls were made before.
C7_ConstantInputDecays ==
  (pc = "returned" /\ op = "highPassFilter" /\ ret = "new"
     /\ Len(before) >= 1 /\ Constant(before))
    => LET alpha == Alpha(args.cutoff_freq, args.sample_rate)
       IN  /\ RLess(RZero, alpha) /\ RLess(alpha, ROne)
           /\ Len(output) = Len(before)
           /\ output[1] = before[1]
           /\ \A i \in 2..Len(output) : output[i] = RMul(alpha, output[i - 1])

C7_Witness ==
  /\ pc = "returned" /\ op = "highPassFilter" /\ filteredBefore
  /\ before = <<ROne, ROne, ROne, ROne>>
  /\ Alpha(args.cutoff_freq, args.sample_rate) = <<1, 4>>
  /\ output = <<ROne, <<1, 4>>, <<1, 16>>, <<1, 64>>>>

\* C8: calculateRMS of an all-zero buffer of length N >= 1 is 0, and
\* calculateRMS of a buffer of length N >= 1 equals calculateRMS of its
\* sample-wise negation.
C8_RmsZeroAndSignInvariant ==
  (pc = "returned" /\ op = "calculateRMS" /\ fail = "none" /\ Len(before) >= 1)
    => /\ AllZero(before) => rms = [isNaN |-> FALSE, sqrtOf |-> RZero]
       /\ rms = Rms(SumSquares(Negated(before), 0, Len(before), RZero),
                    Len(before))

C8_Witness ==
  /\ pc = "returned" /\ op = "calculateRMS"
  /\ before = <<ROne, <<-1, 1>>, ROne, <<-1, 1>>>>
  /\ rms = [isNaN |-> FALSE, sqrtOf |-> ROne]

\* C9: every element read or written by the five operations lies inside the
\* array accessed, for every input length N >= 0.
C9_AccessesInBounds == ~oob

\* C10: when a call returns, on every exit path, each view that was acquired
\* has been released exactly once and no other view has been released.
C10_ViewsReleasedOnce ==
  pc = "returned"
    => \A v \in Views : acquired[v] <= 1 /\ released[v] = acquired[v]

C10_Witness ==
  /\ pc = "returned" /\ op = "normalizeAudio" /\ ret = "input"
  /\ Len(before) > 0 /\ acquired["src"] = 1 /\ released["src"] = 1
  /\ acquired["dst"] = 0

====
